---- MODULE Spec2Model ----
(***************************************************************************)
(* A model of the data preview panel (DataPreview, DataPreviewSerializer)  *)
(* and of the JSON5 data provider (Json5DataProvider).                     *)
(*                                                                         *)
(* JavaScript values are records tagged by their type in field t, so that  *)
(* undefined, null, strings, numbers, arrays and objects stay distinct.    *)
(* A thrown exception is an outcome with err = TRUE.                       *)
(***************************************************************************)
EXTENDS Integers, Sequences, FiniteSets, TLC

VARIABLES
  spec,              \* the parsed vega spec handed to getDataUrls / getData
  files,             \* the disk as the getData call found it: path -> content
  urlsRes,           \* outcome of the getDataUrls(spec) call
  dataRes,           \* outcome of the getData(spec) call
  pc,                \* "start", then "urls" or "data": which call was made
  providerLog,       \* the calls of Json5DataProvider.getData, with what each did
  rootsUri,          \* the uri a preview is made for (this.uri)
  workspaceFolders,  \* the paths of the workspace folders that are open
  roots,             \* what getLocalResourceRoots() returned
  rootsCalled,       \* whether getLocalResourceRoots() was called
  previews,          \* previewManager: the previews it holds, in the order added
  preview,           \* every DataPreview made, with its panel, by id
  restores,          \* deserializeWebviewPanel calls that were given a state.uri
  rejected           \* whether a deserializeWebviewPanel call has thrown

urlVars == <<spec, files, urlsRes, dataRes, pc>>
provVars == <<providerLog>>
rootVars == <<rootsUri, workspaceFolders, roots, rootsCalled>>
panelVars == <<previews, preview, restores, rejected>>
vars == <<urlVars, provVars, rootVars, panelVars>>

\* ---------------------------------------------------------------- bounds
MaxArr == 2          \* longest 'layer'/'concat'/'hconcat'/'vconcat'/'transform' array
MaxData == 2         \* longest 'data' array
MaxCalls == 2        \* calls of Json5DataProvider.getData that are followed
MaxPreviews == 2     \* previews made
MaxRefresh == 2      \* refresh() calls of one preview
MaxDispose == 2      \* entries into dispose() of one preview before direct calls stop

\* ------------------------------------------------------- JavaScript values
Undefined == [t |-> "undefined"]
Null == [t |-> "null"]
Fn == [t |-> "function"]
Str(s) == [t |-> "string", s |-> s]
Num(n) == [t |-> "number", n |-> n]
Arr(items) == [t |-> "array", items |-> items]
Obj(m) == [t |-> "object", m |-> m]
NoMembers == [k \in {} |-> Undefined]

IsArray(v) == v.t = "array"
Range(f) == {f[i] : i \in DOMAIN f}

\* v[key] for a v that is neither undefined nor null (those throw a TypeError).
\* The only key the preview reads that a prototype defines is 'concat', a
\* method of arrays and of strings.
Get(v, key) ==
  IF v.t = "object"
    THEN IF key \in DOMAIN v.m THEN v.m[key] ELSE Undefined
    ELSE IF v.t \in {"array", "string"} /\ key = "concat" THEN Fn ELSE Undefined

\* Array.prototype.concat(value): an array argument is spread, anything else
\* (undefined included) is appended as one element.
JsConcat(arr, v) == IF IsArray(v) THEN arr \o v.items ELSE Append(arr, v)

\* ------------------------------------------------------- call outcomes
Ok(urls) == [err |-> FALSE, urls |-> urls]
Throw == [err |-> TRUE, urls |-> <<>>]

RECURSIVE FlattenSeqs(_)
FlattenSeqs(ss) == IF ss = <<>> THEN <<>> ELSE Head(ss) \o FlattenSeqs(Tail(ss))

\* dataUrls = dataUrls.concat(r) for every outcome r in order; a throw ends it.
ConcatAll(rs) ==
  IF \E i \in 1..Len(rs) : rs[i].err
    THEN Throw
    ELSE Ok(FlattenSeqs([i \in 1..Len(rs) |-> rs[i].urls]))

\* lines 261-271: the spec's own 'data'
TopLevelDataUrls(data) ==
  IF data = Undefined THEN Ok(<<>>)
  ELSE IF IsArray(data)
    THEN IF \E i \in 1..Len(data.items) : data.items[i] \in {Null, Undefined}
           THEN Throw
           ELSE Ok(FlattenSeqs([i \in 1..Len(data.items) |->
                     IF Get(data.items[i], "url") # Undefined
                       THEN <<Get(data.items[i], "url")>> ELSE <<>>]))
  ELSE IF data = Null THEN Throw
  ELSE IF Get(data, "url") # Undefined THEN Ok(<<Get(data, "url")>>)
  ELSE Ok(<<>>)

RECURSIVE getDataUrls(_)
getDataUrls(s) ==
  IF s = Undefined THEN Ok(<<>>)
  ELSE IF s = Null THEN Throw
  ELSE
    LET data == Get(s, "data")
        transforms == Get(s, "transform")
        layers == JsConcat(JsConcat(JsConcat(JsConcat(<<>>,
                    Get(s, "layer")), Get(s, "concat")),
                    Get(s, "hconcat")), Get(s, "vconcat"))
        fromLayers == ConcatAll([i \in 1..Len(layers) |-> getDataUrls(layers[i])])
        fromTransforms ==
          IF transforms = Undefined THEN Ok(<<>>)
          ELSE IF ~IsArray(transforms) THEN Throw
          ELSE IF \E i \in 1..Len(transforms.items) : transforms.items[i] = Null
            THEN Throw
          ELSE ConcatAll([i \in 1..Len(transforms.items) |->
                 getDataUrls(Get(transforms.items[i], "from"))])
    IN ConcatAll(<<TopLevelDataUrls(data), fromLayers, fromTransforms>>)

\* ------------------------------------------------------------ the disk
\* Paths are lists of segments.  PathSegments is what path.join sees in a
\* url: '.' and empty segments vanish, so 'http://h/c.csv' names the
\* relative path http:/h/c.csv.
UrlStrings == {"a.csv", "./a.csv", "b.csv", "http://h/c.csv"}
PathSegments(url) ==
  CASE url = "a.csv" -> <<"a.csv">>
    [] url = "./a.csv" -> <<".", "a.csv">>
    [] url = "b.csv" -> <<"b.csv">>
    [] url = "http://h/c.csv" -> <<"http:", "", "h", "c.csv">>
StartsWithHttp(url) == url \in {"http://h/c.csv"}

RECURSIVE Normalize(_, _)
Normalize(done, rest) ==
  IF rest = <<>> THEN done
  ELSE IF Head(rest) \in {".", ""} THEN Normalize(done, Tail(rest))
  ELSE IF Head(rest) = ".." /\ done # <<>>
    THEN Normalize(SubSeq(done, 1, Len(done) - 1), Tail(rest))
  ELSE Normalize(Append(done, Head(rest)), Tail(rest))
PathJoin(dir, segs) == Normalize(<<>>, dir \o segs)
PathDirname(p) == SubSeq(p, 1, Len(p) - 1)

DocFsPath == <<"w", "charts", "chart.vl.json">>   \* this._uri.fsPath
NoFile == [exists |-> FALSE, content |-> ""]
File(c) == [exists |-> TRUE, content |-> c]
CsvText == "x,y\n1,2"
DiskPaths == {PathJoin(PathDirname(DocFsPath), PathSegments(u)) : u \in UrlStrings}
\* every disk: each path is missing, an empty file or a csv file
Disks == [DiskPaths -> {NoFile, File(""), File(CsvText)}]
NoDisk == [p \in DiskPaths |-> NoFile]

DiskAt(disk, path) == IF path \in DOMAIN disk THEN disk[path] ELSE NoFile

\* lines 292-302; null is the result for a missing file
getFileData(filePath, disk, fsPath) ==
  LET dataFilePath == PathJoin(PathDirname(fsPath), PathSegments(filePath))
  IN IF DiskAt(disk, dataFilePath).exists
       THEN Str(DiskAt(disk, dataFilePath).content) ELSE Null

Truthy(v) == ~(v.t \in {"undefined", "null"}) /\ ~(v.t = "string" /\ v.s = "")

OkData(d) == [err |-> FALSE, data |-> d]
ThrowData == [err |-> TRUE, data |-> NoMembers]

\* lines 222-242
getData(s, disk, fsPath) ==
  LET top == getDataUrls(s)
  IN IF top.err THEN ThrowData
     ELSE
       LET nested == IF s = Undefined THEN Throw ELSE getDataUrls(Get(s, "spec"))
       IN IF nested.err THEN ThrowData
          ELSE
            LET dataUrls == top.urls \o nested.urls
                idx == 1..Len(dataUrls)
            IN IF \E i \in idx : dataUrls[i].t # "string"
                 THEN ThrowData      \* url.startsWith is not a function
                 ELSE
                   LET loaded == {dataUrls[i].s : i \in
                                   {j \in idx : /\ ~StartsWithHttp(dataUrls[j].s)
                                                /\ Truthy(getFileData(dataUrls[j].s, disk, fsPath))}}
                   IN OkData([u \in loaded |-> getFileData(u, disk, fsPath).s])

\* ------------------------------------------------- the specs that are tried
SeqsUpTo(S, n) == UNION {[1..k -> S] : k \in 0..n}
Member(k, v) == IF v = Undefined THEN NoMembers ELSE k :> v
Url(u) == Obj("url" :> Str(u))
Leaf(d) == Obj(Member("data", d) @@ ("mark" :> Str("bar")))

CompKeys == <<"layer", "concat", "hconcat", "vconcat">>

\* what 'data' can be
DataElems == {Url("a.csv"), Url("b.csv"), Obj("name" :> Str("t")), Null}
DataVals ==
  {Url(u) : u \in UrlStrings}
    \cup {Obj("url" :> Num(5)), Obj("values" :> Arr(<<>>)), Null, Str("inline")}
    \cup {Arr(a) : a \in SeqsUpTo(DataElems, MaxData)}

\* what an element of a composition array can be
Children ==
  { Null,
    Leaf(Undefined),
    Leaf(Url("a.csv")),
    Leaf(Url("b.csv")),
    Obj(("facet" :> Str("f")) @@ ("spec" :> Leaf(Url("b.csv")))),
    Obj("layer" :> Arr(<<Leaf(Url("a.csv")), Leaf(Url("http://h/c.csv"))>>)),
    Arr(<<Leaf(Url("a.csv"))>>) }

\* what 'transform' can be
TransformElems ==
  { Null,
    Obj("filter" :> Str("x")),
    Obj("lookup" :> Str("k") @@ ("from" :> Leaf(Url("b.csv")))),
    Obj("lookup" :> Str("k") @@ ("from" :> Null)) }
TransformVals ==
  {Null, Obj("filter" :> Str("x"))} \cup {Arr(a) : a \in SeqsUpTo(TransformElems, MaxArr)}

Optional(S) == S \cup {Undefined}

Specs ==
  \* a single view, with every form of 'data'
  {Leaf(d) : d \in Optional(DataVals)}
  \* one composition
  \cup {Obj(Member("data", d) @@ (CompKeys[k] :> Arr(a))) :
          d \in Optional({Url("b.csv")}), k \in 1..4, a \in SeqsUpTo(Children, MaxArr)}
  \* two compositions side by side
  \cup {Obj((CompKeys[k1] :> Arr(<<c1>>)) @@ (CompKeys[k2] :> Arr(<<c2>>))) :
          k1 \in 1..4, k2 \in 1..4, c1 \in Children, c2 \in Children}
  \* transforms, after data and a layer
  \cup {Obj(Member("data", d) @@ Member("layer", l) @@ ("transform" :> tr)) :
          d \in Optional({Url("a.csv")}),
          l \in Optional({Arr(<<Leaf(Url("./a.csv"))>>)}),
          tr \in TransformVals}
  \* a view composition with a nested 'spec'
  \cup {Obj(Member("data", d) @@ ("repeat" :> Str("r")) @@ ("spec" :> c)) :
          d \in Optional({Url("a.csv")}), c \in Children}
  \* the documents that are no object
  \cup {Null, Num(1), Str("vega"), Arr(<<Leaf(Url("a.csv"))>>)}

\* ------------------------------------------------------------- the calls
IdleUrls(s) ==
  /\ spec = s
  /\ files = NoDisk
  /\ urlsRes = Ok(<<>>)
  /\ dataRes = OkData(NoMembers)
  /\ pc = "start"

CallGetDataUrls ==
  /\ pc = "start"
  /\ urlsRes' = getDataUrls(spec)
  /\ pc' = "urls"
  /\ UNCHANGED <<spec, files, dataRes, provVars, rootVars, panelVars>>

CallGetData ==
  /\ pc = "start"
  /\ \E disk \in Disks :
       /\ files' = disk
       /\ dataRes' = getData(spec, disk, DocFsPath)
  /\ pc' = "data"
  /\ UNCHANGED <<spec, urlsRes, provVars, rootVars, panelVars>>

\* ------------------------------------------------ the walks the claims state
HasUrl(v) == v.t = "object" /\ "url" \in DOMAIN v.m
Elements(v) == IF v.t = "array" THEN v.items ELSE <<>>

\* the 'url' values of a 'data' member: of every element that has one, or its own
OwnDataUrls(data) ==
  IF data.t = "array"
    THEN FlattenSeqs([i \in 1..Len(data.items) |->
           IF HasUrl(data.items[i]) THEN <<data.items[i].m["url"]>> ELSE <<>>])
    ELSE IF HasUrl(data) THEN <<data.m["url"]>> ELSE <<>>

\* nestedSpec = TRUE also follows the 'spec' member of every object of the tree
RECURSIVE WalkUrls(_, _)
WalkUrls(s, nestedSpec) ==
  IF s.t # "object" THEN <<>>
  ELSE
    LET sub(v) == FlattenSeqs([i \in 1..Len(Elements(v)) |->
                    WalkUrls(Elements(v)[i], nestedSpec)])
        from(v) == FlattenSeqs([i \in 1..Len(Elements(v)) |->
                     IF Elements(v)[i].t = "object"
                       THEN WalkUrls(Get(Elements(v)[i], "from"), nestedSpec)
                       ELSE <<>>])
    IN OwnDataUrls(Get(s, "data"))
         \o sub(Get(s, "layer")) \o sub(Get(s, "concat"))
         \o sub(Get(s, "hconcat")) \o sub(Get(s, "vconcat"))
         \o from(Get(s, "transform"))
         \o (IF nestedSpec THEN WalkUrls(Get(s, "spec"), nestedSpec) ELSE <<>>)

Walk(s) == WalkUrls(s, FALSE)
DeepWalk(s) == WalkUrls(s, TRUE)

\* the file a local url names, as the call found it
FileAt(u, disk) == DiskAt(disk, PathJoin(PathDirname(DocFsPath), PathSegments(u)))
LocalUrls(urls) == {v.s : v \in {w \in Range(urls) : w.t = "string" /\ ~StartsWithHttp(w.s)}}

\* C1: getDataUrls(spec) returns, for every spec object, exactly the urls of
\* the walk: own data, then layer, concat, hconcat, vconcat, then transform
\* froms; an undefined spec has none.
C1_ReturnsTheWalk ==
  pc = "urls" /\ spec.t \in {"object", "undefined"} => urlsRes = Ok(Walk(spec))

\* Where getDataUrls returns at all, it returns the walk of C1.
ReturnsTheWalkUnlessThrown == pc = "urls" /\ ~urlsRes.err => urlsRes.urls = Walk(spec)

\* C8: getDataUrls returns a list, and raises no error, for every value
\* JSON.parse can produce.
C8_NeverThrows == pc = "urls" => ~urlsRes.err

\* C5: the map of getData holds the data of the nested 'spec' of every view
\* composition of the tree, wherever it sits: every local url of the deep
\* walk whose file has content is a key.
C5_NestedSpecsLoaded ==
  pc = "data" /\ ~dataRes.err =>
    \A u \in LocalUrls(DeepWalk(spec)) :
      FileAt(u, files) = File(CsvText) => u \in DOMAIN dataRes.data

\* The same for the nested 'spec' of the root alone.
RootNestedSpecLoaded ==
  pc = "data" /\ ~dataRes.err =>
    \A u \in LocalUrls(Walk(spec) \o Walk(Get(spec, "spec"))) :
      FileAt(u, files) = File(CsvText) => u \in DOMAIN dataRes.data

\* the urls getData collects (line 226-229)
Collected(s) == getDataUrls(s).urls \o getDataUrls(Get(s, "spec")).urls

\* C6: the keys of the map are exactly the collected urls that do not start
\* with 'http' and whose file exists, each mapped to the file's content.
C6_MapIsTheExistingLocalFiles ==
  pc = "data" /\ ~dataRes.err =>
    /\ DOMAIN dataRes.data = {u \in LocalUrls(Collected(spec)) : FileAt(u, files).exists}
    /\ \A u \in DOMAIN dataRes.data : dataRes.data[u] = FileAt(u, files).content

\* The same, for the files that are not empty.
MapIsTheNonEmptyLocalFiles ==
  pc = "data" /\ ~dataRes.err =>
    /\ DOMAIN dataRes.data =
         {u \in LocalUrls(Collected(spec)) : FileAt(u, files).exists /\ FileAt(u, files).content # ""}
    /\ \A u \in DOMAIN dataRes.data : dataRes.data[u] = FileAt(u, files).content

\* =================================================== Json5DataProvider
\* json5.parse(content): the value, or a SyntaxError
Json5Texts == {"[{a:1},{a:2}]", "{a:1,}", "[]", "null", "{a:", ""}
json5parse(content) ==
  CASE content = "[{a:1},{a:2}]" ->
         [err |-> FALSE, value |-> Arr(<<Obj("a" :> Num(1)), Obj("a" :> Num(2))>>)]
    [] content = "{a:1,}" -> [err |-> FALSE, value |-> Obj("a" :> Num(1))]
    [] content = "[]" -> [err |-> FALSE, value |-> Arr(<<>>)]
    [] content = "null" -> [err |-> FALSE, value |-> Null]
    [] content = "{a:" -> [err |-> TRUE, value |-> Undefined]
    [] content = "" -> [err |-> TRUE, value |-> Undefined]

\* fileUtils.readDataFile(dataUrl, 'utf8'): the content, or an error thrown
ReadOutcomes ==
  {[err |-> TRUE, content |-> ""]} \cup {[err |-> FALSE, content |-> c] : c \in Json5Texts}

\* jsonUtils.convertJsonData(data): the rows of the table; an array is its
\* own rows, any other value is the one row of the table
convertJsonData(data) == IF IsArray(data) THEN data ELSE Arr(<<data>>)

ShowErrorMessage == [e |-> "showErrorMessage"]
LoadData(arg) == [e |-> "loadData", arg |-> arg]

\* getData with the loadData call inside the try block: a failed read or
\* parse then skips the callback
Json5GetDataLoadInTry(read) ==
  IF read.err \/ json5parse(read.content).err
    THEN [events |-> <<ShowErrorMessage>>, threw |-> FALSE]
    ELSE [events |-> <<LoadData(convertJsonData(json5parse(read.content).value))>>,
          threw |-> FALSE]

\* lines 32-43: what one call does, given what readDataFile does on dataUrl
Json5GetData(read) ==
  LET failed == read.err \/ json5parse(read.content).err
      data == IF failed THEN Arr(<<>>) ELSE json5parse(read.content).value
  IN [events |-> (IF failed THEN <<ShowErrorMessage>> ELSE <<>>)
                   \o <<LoadData(convertJsonData(data))>>,
      threw |-> FALSE]

IdleProvider == providerLog = <<>>

ProviderGetData ==
  /\ Len(providerLog) < MaxCalls
  /\ \E dataUrl \in {"data.json5", "missing.json5"}, read \in ReadOutcomes :
       providerLog' = Append(providerLog,
         [dataUrl |-> dataUrl, read |-> read, did |-> Json5GetData(read)])
  /\ UNCHANGED <<urlVars, rootVars, panelVars>>

\* ====================================================== resource roots
UriFile(path) == [scheme |-> "file", path |-> path]
\* Uri.parse(value)
UriStrings ==
  { "file:///w/charts/chart.vl.json", "file:///w/lib/deep/a.json", "file:///tmp/b.json",
    "untitled:Untitled-1", "/w/charts/chart.vl.json", "http://h/spec.json" }
UriParse(value) ==
  CASE value = "file:///w/charts/chart.vl.json" -> UriFile(<<"w", "charts", "chart.vl.json">>)
    [] value = "file:///w/lib/deep/a.json" -> UriFile(<<"w", "lib", "deep", "a.json">>)
    [] value = "file:///tmp/b.json" -> UriFile(<<"tmp", "b.json">>)
    [] value = "untitled:Untitled-1" -> [scheme |-> "untitled", path |-> <<"Untitled-1">>]
    [] value = "/w/charts/chart.vl.json" ->
         [scheme |-> "", path |-> <<"w", "charts", "chart.vl.json">>]
    [] value = "http://h/spec.json" -> [scheme |-> "http", path |-> <<"spec.json">>]
Uris == {UriParse(v) : v \in UriStrings}

ExtensionPath == <<"ext", "data-preview">>
FolderPaths == {<<"w">>, <<"w", "lib">>, <<"w", "charts">>, <<"home">>}

IsPrefix(p, q) == Len(p) <= Len(q) /\ SubSeq(q, 1, Len(p)) = p

\* workspace.getWorkspaceFolder(uri): the innermost open folder that holds
\* the resource, or undefined
getWorkspaceFolder(uri, folders) ==
  LET holding == {f \in folders : uri.scheme = "file" /\ IsPrefix(f, uri.path)}
  IN IF holding = {} THEN Undefined
     ELSE [t |-> "object",
           uri |-> UriFile(CHOOSE f \in holding : \A g \in holding : Len(g) <= Len(f))]

\* getLocalResourceRoots with 'if' in place of 'else if'
getLocalResourceRootsNoElse(uri, folders) ==
  LET workspaceFolder == getWorkspaceFolder(uri, folders)
  IN (IF workspaceFolder # Undefined THEN <<workspaceFolder.uri>> ELSE <<>>)
       \o (IF uri.scheme = "" \/ uri.scheme = "file"
             THEN <<UriFile(PathDirname(uri.path))>> ELSE <<>>)
       \o <<UriFile(PathJoin(ExtensionPath, <<"scripts">>))>>

\* lines 165-178
getLocalResourceRoots(uri, folders) ==
  LET workspaceFolder == getWorkspaceFolder(uri, folders)
  IN (IF workspaceFolder # Undefined THEN <<workspaceFolder.uri>>
      ELSE IF uri.scheme = "" \/ uri.scheme = "file"
        THEN <<UriFile(PathDirname(uri.path))>>
      ELSE <<>>)
       \o <<UriFile(PathJoin(ExtensionPath, <<"scripts">>))>>

IdleRoots(u, folders) ==
  /\ rootsUri = u
  /\ workspaceFolders = folders
  /\ roots = <<>>
  /\ rootsCalled = FALSE

CallGetLocalResourceRoots ==
  /\ ~rootsCalled
  /\ roots' = getLocalResourceRoots(rootsUri, workspaceFolders)
  /\ rootsCalled' = TRUE
  /\ UNCHANGED <<rootsUri, workspaceFolders, urlVars, provVars, panelVars>>

\* ========================================================= DataPreview
Listeners == {"onDidDispose", "onDidChangeViewState", "onDidReceiveMessage"}
Basename(path) == IF path = <<>> THEN "" ELSE path[Len(path)]

\* Uri.toString() of the uris previews are made for
UriToString(uri) ==
  CASE uri = UriFile(<<"w", "charts", "chart.vl.json">>) -> "file:///w/charts/chart.vl.json"
    [] uri = UriFile(<<"tmp", "b.json">>) -> "file:///tmp/b.json"
    [] uri = [scheme |-> "untitled", path |-> <<"Untitled-1">>] -> "untitled:Untitled-1"
    [] OTHER -> "?"

\* the fields of a DataPreview and of its panel; the counters record what
\* was done to the panel and by whom
NoPreview ==
  [ made |-> FALSE,               \* constructed
    uri |-> UriFile(<<>>),        \* _uri
    fileName |-> "",              \* _fileName
    passed |-> FALSE,             \* a panel was passed to the constructor
    stateUri |-> "",              \* state.uri the preview was restored from
    panelFrom |-> "none",         \* _panel: "none", "host" or "createWebviewPanel"
    created |-> 0,                \* calls of window.createWebviewPanel
    roots |-> <<>>,               \* localResourceRoots given to createWebviewPanel
    registered |-> <<>>,          \* listeners registered on the panel, in order
    disposables |-> <<>>,         \* _disposables
    listenerDisposed |-> [l \in Listeners |-> 0],   \* dispose() calls of each listener
    htmlSet |-> 0,                \* assignments to webview.html
    panelDisposed |-> FALSE,      \* the host's flag of the panel
    disposeCalls |-> 0,           \* entries into dispose()
    reveals |-> 0,                \* calls of _panel.reveal
    pending |-> 0,                \* openTextDocument promises not settled yet
    completed |-> 0,              \* openTextDocument promises fulfilled
    postCount |-> 0,              \* calls of webview.postMessage
    posted |-> <<>>,              \* the messages the last fulfilled open posted
    opened |-> "" ]               \* the text the last fulfilled open read

\* panel.<event>(listener, null, this._disposables)
Register(p, event) ==
  [p EXCEPT !.registered = Append(@, event), !.disposables = Append(@, event)]

\* initWebview without the check of this._panel
initWebviewAlwaysCreates(p, folders) ==
  LET withPanel ==
        [p EXCEPT !.panelFrom = "createWebviewPanel", !.created = @ + 1,
                  !.roots = getLocalResourceRoots(p.uri, folders)]
  IN Register(Register(Register(withPanel,
       "onDidDispose"), "onDidChangeViewState"), "onDidReceiveMessage")

\* lines 122-147
initWebview(p, folders) ==
  LET withPanel ==
        IF p.panelFrom = "none"
          THEN [p EXCEPT !.panelFrom = "createWebviewPanel", !.created = @ + 1,
                         !.roots = getLocalResourceRoots(p.uri, folders)]
          ELSE p
  IN Register(Register(Register(withPanel,
       "onDidDispose"), "onDidChangeViewState"), "onDidReceiveMessage")

\* lines 183-188
configure(p) == [p EXCEPT !.htmlSet = @ + 1]

\* lines 81-115: new DataPreview(viewType, extensionPath, uri, viewColumn, template, panel)
DataPreviewNew(uri, panelPassed, folders) ==
  configure(initWebview(
    [NoPreview EXCEPT !.made = TRUE, !.uri = uri, !.fileName = Basename(uri.path),
                      !.passed = panelPassed,
                      !.panelFrom = IF panelPassed THEN "host" ELSE "none"],
    folders))

\* previewManager.add(preview), previewManager.remove(preview)
ManagerAdd(mgr, id) == Append(mgr, id)
ManagerRemove(mgr, id) == SelectSeq(mgr, LAMBDA x : x # id)

IsFresh(id, ids) == ~preview[id].made /\ \A j \in ids : j < id => preview[j].made

\* the states the host hands back: what the webview saved, or nothing
SavedUris == {"file:///w/charts/chart.vl.json", "file:///tmp/b.json", "untitled:Untitled-1"}
SavedStates == {Obj("uri" :> Str(u)) : u \in SavedUris} \cup {Undefined}

\* lines 43-54; state.uri of an undefined state throws before anything is made
deserializeWebviewPanel(ids) ==
  \E state \in SavedStates :
    IF state = Undefined
      THEN /\ rejected' = TRUE
           /\ UNCHANGED <<previews, preview, restores>>
      ELSE \E id \in ids :
             /\ IsFresh(id, ids)
             /\ preview' = [preview EXCEPT ![id] =
                  [DataPreviewNew(UriParse(Get(state, "uri").s), TRUE, workspaceFolders)
                     EXCEPT !.stateUri = Get(state, "uri").s]]
             /\ previews' = ManagerAdd(previews, id)
             /\ restores' = restores + 1
             /\ UNCHANGED rejected

\* a preview command: the constructor without a panel, then previewManager.add
NewPreview(ids) ==
  \E u \in SavedUris, id \in ids :
    /\ IsFresh(id, ids)
    /\ preview' = [preview EXCEPT ![id] = DataPreviewNew(UriParse(u), FALSE, workspaceFolders)]
    /\ previews' = ManagerAdd(previews, id)
    /\ UNCHANGED <<restores, rejected>>

\* ----------------------------------------------------------- disposal
\* st = [mgr |-> the manager's list, p |-> the preview]
ListenerActive(p, event) ==
  event \in Range(p.registered) /\ p.listenerDisposed[event] = 0

RECURSIVE Drain(_)
\* the loop of dispose() with 'if' in place of 'while'
DrainFirstOnly(p) ==
  IF p.disposables = <<>> THEN p
  ELSE LET item == p.disposables[Len(p.disposables)]
       IN [p EXCEPT !.disposables = SubSeq(@, 1, Len(@) - 1),
                    !.listenerDisposed[item] = @ + 1]

\* lines 310-315: while (this._disposables.length) { pop; dispose }
Drain(p) ==
  IF p.disposables = <<>> THEN p
  ELSE LET item == p.disposables[Len(p.disposables)]
       IN Drain([p EXCEPT !.disposables = SubSeq(@, 1, Len(@) - 1),
                          !.listenerDisposed[item] = @ + 1])

RECURSIVE dispose(_, _)
\* WebviewPanel.dispose() of the host: nothing on a disposed panel; else the
\* panel is marked disposed and onDidDispose fires, whose listener (line
\* 129-131) calls this.dispose()
PanelDispose(st, id) ==
  IF st.p.panelDisposed THEN st
  ELSE LET marked == [st EXCEPT !.p.panelDisposed = TRUE]
       IN IF ListenerActive(marked.p, "onDidDispose") THEN dispose(marked, id) ELSE marked

\* lines 307-316
dispose(st, id) ==
  LET removed == [st EXCEPT !.mgr = ManagerRemove(@, id), !.p.disposeCalls = @ + 1]
      closed == PanelDispose(removed, id)
  IN [closed EXCEPT !.p = Drain(@)]

\* the user closes the panel: the host disposes it
HostClosePanel(ids) ==
  \E id \in ids :
    /\ preview[id].made /\ ~preview[id].panelDisposed
    /\ LET st == PanelDispose([mgr |-> previews, p |-> preview[id]], id)
       IN /\ previews' = st.mgr
          /\ preview' = [preview EXCEPT ![id] = st.p]
    /\ UNCHANGED <<restores, rejected>>

\* a direct call of preview.dispose()
Dispose(ids) ==
  \E id \in ids :
    /\ preview[id].made /\ preview[id].disposeCalls < MaxDispose
    /\ LET st == dispose([mgr |-> previews, p |-> preview[id]], id)
       IN /\ previews' = st.mgr
          /\ preview' = [preview EXCEPT ![id] = st.p]
    /\ UNCHANGED <<restores, rejected>>

\* ------------------------------------------------------------ refresh
\* JSON.parse(text) of the documents that are opened
DocTexts ==
  { "{\"data\":{\"url\":\"a.csv\"}}",
    " {\"data\": {\"url\": \"a.csv\"}}\n",
    "{\"data\":null}",
    "{\"hconcat\":[{\"repeat\":\"r\",\"spec\":{\"data\":{\"url\":\"a.csv\"}}}]}",
    "{\"data\":[{\"url\":\"b.csv\"},{\"url\":\"http://h/c.csv\"}]}",
    "{\"data\":" }
JSONparse(text) ==
  CASE text \in {"{\"data\":{\"url\":\"a.csv\"}}", " {\"data\": {\"url\": \"a.csv\"}}\n"} ->
         [err |-> FALSE, value |-> Obj("data" :> Url("a.csv"))]
    [] text = "{\"data\":null}" -> [err |-> FALSE, value |-> Obj("data" :> Null)]
    [] text = "{\"hconcat\":[{\"repeat\":\"r\",\"spec\":{\"data\":{\"url\":\"a.csv\"}}}]}" ->
         [err |-> FALSE,
          value |-> Obj("hconcat" :> Arr(<<Obj(("repeat" :> Str("r"))
                      @@ ("spec" :> Obj("data" :> Url("a.csv"))))>>))]
    [] text = "{\"data\":[{\"url\":\"b.csv\"},{\"url\":\"http://h/c.csv\"}]}" ->
         [err |-> FALSE,
          value |-> Obj("data" :> Arr(<<Url("b.csv"), Url("http://h/c.csv")>>))]
    [] text = "{\"data\":" -> [err |-> TRUE, value |-> Undefined]

\* the disk the previews read
PreviewDisk ==
  (<<"w", "charts", "a.csv">> :> File(CsvText))
    @@ (<<"w", "charts", "b.csv">> :> File("a,b\n3,4"))
    @@ (<<"tmp", "a.csv">> :> File(""))

ErrorMessage(name) == [error |-> name]
RefreshMessage(p, vegaSpec, data) ==
  [command |-> "refresh", fileName |-> p.fileName, uri |-> UriToString(p.uri),
   spec |-> vegaSpec, data |-> data]

\* the callback with the error message posted after the try block as well
RefreshThenAlsoError(p, vegaSpec) ==
  LET parsed == JSONparse(vegaSpec)
      data == getData(parsed.value, PreviewDisk, p.uri.path)
  IN IF parsed.err THEN <<ErrorMessage("SyntaxError")>>
     ELSE IF data.err THEN <<ErrorMessage("TypeError")>>
     ELSE <<RefreshMessage(p, vegaSpec, data.data), ErrorMessage("TypeError")>>

\* lines 197-215: the messages the callback of openTextDocument posts.
\* A post is a call of webview.postMessage; what the host does with a
\* message for a disposed panel is not the program's.
RefreshThen(p, vegaSpec) ==
  LET parsed == JSONparse(vegaSpec)
      data == getData(parsed.value, PreviewDisk, p.uri.path)
  IN IF parsed.err THEN <<ErrorMessage("SyntaxError")>>
     ELSE IF data.err THEN <<ErrorMessage("TypeError")>>
     ELSE <<RefreshMessage(p, vegaSpec, data.data)>>

\* lines 193-197: reveal the panel, ask for the document
refresh(p) == [p EXCEPT !.reveals = @ + 1, !.pending = @ + 1]

\* the webview sends a message: lines 140-146
WebviewMessage(ids) ==
  \E id \in ids, command \in {"refresh", "ready"} :
    /\ preview[id].made /\ ~preview[id].panelDisposed
    /\ ListenerActive(preview[id], "onDidReceiveMessage")
    /\ preview[id].reveals < MaxRefresh
    /\ preview' = [preview EXCEPT ![id] = IF command = "refresh" THEN refresh(@) ELSE @]
    /\ UNCHANGED <<previews, restores, rejected>>

\* the extension refreshes a preview the manager holds
RefreshCall(ids) ==
  \E id \in ids :
    /\ id \in Range(previews)
    /\ preview[id].reveals < MaxRefresh
    /\ preview' = [preview EXCEPT ![id] = refresh(@)]
    /\ UNCHANGED <<previews, restores, rejected>>

\* openTextDocument is fulfilled with the document as it is then
OpenCompletes(ids) ==
  \E id \in ids, text \in DocTexts :
    /\ preview[id].pending > 0
    /\ preview' = [preview EXCEPT ![id] =
         [@ EXCEPT !.pending = @ - 1, !.completed = @ + 1, !.opened = text,
                   !.posted = RefreshThen(preview[id], text),
                   !.postCount = @ + Len(RefreshThen(preview[id], text))]]
    /\ UNCHANGED <<previews, restores, rejected>>

\* openTextDocument is rejected (the file is gone): no callback runs
OpenFails(ids) ==
  \E id \in ids :
    /\ preview[id].pending > 0
    /\ preview' = [preview EXCEPT ![id].pending = @ - 1]
    /\ UNCHANGED <<previews, restores, rejected>>

PreviewIds == 1..MaxPreviews
OnePreview == {1}

IdlePanels ==
  /\ previews = <<>>
  /\ preview = [id \in PreviewIds |-> NoPreview]
  /\ restores = 0
  /\ rejected = FALSE

\* ===================================================== specifications
InitUrls ==
  /\ \E s \in Specs : IdleUrls(s)
  /\ IdleProvider
  /\ IdlePanels
  /\ IdleRoots(UriParse("file:///w/charts/chart.vl.json"), {<<"w">>})
NextUrls == CallGetDataUrls \/ CallGetData
SpecUrls == InitUrls /\ [][NextUrls]_vars

InitProvider ==
  /\ IdleUrls(Null)
  /\ IdleProvider
  /\ IdlePanels
  /\ IdleRoots(UriParse("file:///w/charts/chart.vl.json"), {<<"w">>})
NextProvider == ProviderGetData
SpecProvider == InitProvider /\ [][NextProvider]_vars

InitRoots ==
  /\ IdleUrls(Null)
  /\ IdleProvider
  /\ IdlePanels
  /\ \E u \in Uris, folders \in SUBSET FolderPaths : IdleRoots(u, folders)
NextRoots == CallGetLocalResourceRoots
SpecRoots == InitRoots /\ [][NextRoots]_vars

InitPanels ==
  /\ IdleUrls(Null)
  /\ IdleProvider
  /\ IdleRoots(UriParse("file:///w/charts/chart.vl.json"), {<<"w">>})
  /\ IdlePanels

\* the previews of a window: made, restored, closed and disposed
NextPanels ==
  \/ (deserializeWebviewPanel(PreviewIds) /\ UNCHANGED <<urlVars, provVars, rootVars>>)
  \/ (NewPreview(PreviewIds) /\ UNCHANGED <<urlVars, provVars, rootVars>>)
  \/ (HostClosePanel(PreviewIds) /\ UNCHANGED <<urlVars, provVars, rootVars>>)
  \/ (Dispose(PreviewIds) /\ UNCHANGED <<urlVars, provVars, rootVars>>)
SpecPanels == InitPanels /\ [][NextPanels]_vars

\* one preview, with its refreshes
NextRefresh ==
  \/ (deserializeWebviewPanel(OnePreview) /\ UNCHANGED <<urlVars, provVars, rootVars>>)
  \/ (NewPreview(OnePreview) /\ UNCHANGED <<urlVars, provVars, rootVars>>)
  \/ (HostClosePanel(OnePreview) /\ UNCHANGED <<urlVars, provVars, rootVars>>)
  \/ (Dispose(OnePreview) /\ UNCHANGED <<urlVars, provVars, rootVars>>)
  \/ (WebviewMessage(OnePreview) /\ UNCHANGED <<urlVars, provVars, rootVars>>)
  \/ (RefreshCall(OnePreview) /\ UNCHANGED <<urlVars, provVars, rootVars>>)
  \/ (OpenCompletes(OnePreview) /\ UNCHANGED <<urlVars, provVars, rootVars>>)
  \/ (OpenFails(OnePreview) /\ UNCHANGED <<urlVars, provVars, rootVars>>)
SpecRefresh == InitPanels /\ [][NextRefresh]_vars

\* C2: every call of Json5DataProvider.getData invokes loadData exactly once
\* and lets no exception escape; on success with the conversion of the
\* parsed content; on a failed read or parse after exactly one error message,
\* with the conversion of the empty array.
C2_LoadDataOnce ==
  \A i \in 1..Len(providerLog) :
    LET call == providerLog[i]
        ev == call.did.events
        failed == call.read.err \/ json5parse(call.read.content).err
    IN /\ ~call.did.threw
       /\ Cardinality({j \in 1..Len(ev) : ev[j].e = "loadData"}) = 1
       /\ ~failed => ev = <<LoadData(convertJsonData(json5parse(call.read.content).value))>>
       /\ failed => ev = <<ShowErrorMessage, LoadData(convertJsonData(Arr(<<>>)))>>

\* a call whose parse failed and a call that loaded an object as one row
C2_Witness ==
  /\ \E i \in 1..Len(providerLog) :
       ~providerLog[i].read.err /\ json5parse(providerLog[i].read.content).err
  /\ \E i \in 1..Len(providerLog) :
       providerLog[i].did.events = <<LoadData(Arr(<<Obj("a" :> Num(1))>>))>>

\* C7: getLocalResourceRoots() ends with the extension's scripts directory,
\* preceded by the workspace folder of the uri if it has one, else by the
\* file's parent directory if the scheme is empty or 'file', else by nothing.
C7_Roots ==
  rootsCalled =>
    LET scripts == UriFile(<<"ext", "data-preview", "scripts">>)
        holding == {f \in workspaceFolders :
                      rootsUri.scheme = "file" /\ IsPrefix(f, rootsUri.path)}
    IN /\ Len(roots) \in {1, 2}
       /\ roots[Len(roots)] = scripts
       /\ holding # {} => Len(roots) = 2 /\ roots[1].scheme = "file" /\ roots[1].path \in holding
       /\ holding = {} /\ rootsUri.scheme \in {"", "file"} =>
            roots = <<UriFile(PathDirname(rootsUri.path)), scripts>>
       /\ holding = {} /\ rootsUri.scheme \notin {"", "file"} => roots = <<scripts>>

\* a file of a workspace folder was given its folder, not its directory
C7_Witness ==
  /\ rootsCalled
  /\ rootsUri = UriFile(<<"w", "lib", "deep", "a.json">>)
  /\ roots[1] = UriFile(<<"w", "lib">>)

Made == {id \in DOMAIN preview : preview[id].made}
Occurrences(seq, x) == Cardinality({i \in 1..Len(seq) : seq[i] = x})

\* C4: deserializeWebviewPanel adds exactly one DataPreview to the manager,
\* made for Uri.parse(state.uri), on the panel the host handed in;
\* createWebviewPanel is called if and only if no panel was passed; either
\* way each of the three listeners is registered once and the html set once.
C4_RestoreReusesPanel ==
  /\ Cardinality({id \in Made : preview[id].passed}) = restores
  /\ \A id \in Made :
       LET p == preview[id]
       IN /\ p.passed => p.panelFrom = "host" /\ p.created = 0 /\ p.uri = UriParse(p.stateUri)
          /\ ~p.passed => p.panelFrom = "createWebviewPanel" /\ p.created = 1
          /\ Len(p.registered) = 3 /\ Range(p.registered) = Listeners
          /\ p.htmlSet = 1
          /\ p.disposeCalls = 0 => Occurrences(previews, id) = 1

\* a restored preview and a newly made one, side by side in the manager
C4_Witness ==
  \E i \in Made, j \in Made :
    /\ preview[i].passed /\ preview[i].stateUri = "file:///tmp/b.json"
    /\ ~preview[j].passed /\ preview[j].created = 1
    /\ Len(previews) = 2

\* C9: however disposal starts, afterwards the preview is out of the
\* manager, _disposables is empty and each listener of initWebview has been
\* disposed exactly once.
C9_DisposalComplete ==
  \A id \in Made :
    LET p == preview[id]
    IN /\ p.panelDisposed => p.disposeCalls > 0
       /\ p.disposeCalls > 0 =>
            /\ p.panelDisposed
            /\ Occurrences(previews, id) = 0
            /\ p.disposables = <<>>
            /\ \A l \in Listeners : p.listenerDisposed[l] = 1

\* one preview disposed by a direct call that re-entered dispose(), one
\* disposed by the host closing its panel
C9_Witness ==
  \E i \in Made, j \in Made :
    /\ preview[i].disposeCalls = 2
    /\ preview[j].disposeCalls = 1 /\ preview[j].panelDisposed

\* C3: every refresh() whose document open completes posts exactly one
\* message: the refresh message with the file name, the uri, the text as it
\* was read and the map of getData when the text parses and getData raises
\* nothing, else one message with the error alone.
C3_OneMessagePerRefresh ==
  \A id \in Made :
    LET p == preview[id]
        parsed == JSONparse(p.opened)
        data == getData(parsed.value, PreviewDisk, p.uri.path)
    IN p.completed > 0 =>
         /\ p.postCount = p.completed
         /\ Len(p.posted) = 1
         /\ IF ~parsed.err /\ ~data.err
              THEN p.posted[1] =
                     [command |-> "refresh", fileName |-> Basename(p.uri.path),
                      uri |-> UriToString(p.uri), spec |-> p.opened, data |-> data.data]
              ELSE DOMAIN p.posted[1] = {"error"}

\* a second refresh completed and posted the data of a.csv
C3_Witness ==
  \E id \in Made :
    /\ preview[id].completed = 2
    /\ "command" \in DOMAIN preview[id].posted[1]
    /\ "a.csv" \in DOMAIN preview[id].posted[1].data
    /\ preview[id].opened = " {\"data\": {\"url\": \"a.csv\"}}\n"

\* C10: once a preview has been disposed, no message is posted to its
\* webview and its panel is not revealed again.
C10_QuietAfterDispose ==
  [][\A id \in DOMAIN preview :
       preview[id].disposeCalls > 0 =>
         /\ preview'[id].postCount = preview[id].postCount
         /\ preview'[id].reveals = preview[id].reveals]_vars

====
